---- MODULE Spec2Model ----
(***************************************************************************)
(* Model of the log analyser in src/src/main.py: LogParser.parse_log_line, *)
(* AsyncLogFileReader.parse_log_file, LogDataMerger.merge,                 *)
(* ReportGenerator.format_out / report_out and AsyncLogAnalyzer.analyze.   *)
(*                                                                         *)
(* Strings that are sorted, truncated, padded or printed are sequences of  *)
(* character codes (ASCII), so that sorted(), [:25], ljust() and str() are *)
(* computed and not assumed.  Level names are TLA+ strings: the code only  *)
(* compares them for equality and uses them as dictionary keys.            *)
(***************************************************************************)
EXTENDS Integers, Sequences, FiniteSets, TLC

VARIABLES
    files,        \* the lines of each path of file_paths (what open() reads)
    exists,       \* os.path.isfile of each path
    pc,           \* position of analyze (or of the direct caller of merge/report_out)
    pos,          \* per task: number of lines read by read_file_lines
    data,         \* per task: local variable data of parse_log_file
    cache,        \* per task: local variable cache of parse_log_file
    tstate,       \* per task: "pending", "open", "done" or "failed"
    err,          \* the exception that ended the run, "none" otherwise
    data_list,    \* argument of merge
    merged_data,  \* result of merge
    rendered,     \* argument of report_out
    report        \* result of report_out

vars == <<files, exists, pc, pos, data, cache, tstate, err,
          data_list, merged_data, rendered, report>>

----------------------------------------------------------------------------
(* Bounds of the explored inputs.                                          *)
MaxFiles == 2
MaxLines == 2
MaxFileLines == 3
MaxTables == 3

----------------------------------------------------------------------------
(* config.py                                                               *)
LOG_LEVELS == <<"DEBUG", "INFO", "WARNING", "ERROR", "CRITICAL">>

LevelSet == {LOG_LEVELS[i] : i \in 1..Len(LOG_LEVELS)}

(* Column widths of the report (format_out / report_out).                  *)
HandlerWidth == 25
LevelWidth == 8

(* Character codes.                                                        *)
TAB == 9
SPACE == 32
DIGIT0 == 48

----------------------------------------------------------------------------
(* Values of Python that are not strings.                                  *)
None == <<-1>>
EmptyStr == <<>>

(* Truthiness of an Optional[str]: None and "" are falsy.                  *)
Truthy(h) == h # None /\ h # EmptyStr

(* Handlers used in log lines: "/a/" and "/b/".                            *)
HA == <<47, 97, 47>>
HB == <<47, 98, 47>>

(* A level token that the level pattern can capture but that is not in     *)
(* LOG_LEVELS, and the marker of "the level pattern does not match".       *)
TRACE == "TRACE"
NoMatch == "<no match>"

(* The two patterns are constructor arguments of LogParser; what the code  *)
(* does with a line depends only on what the two searches return.          *)
(* A log line, seen through the two regular-expression searches of         *)
(* parse_log_line: lvl is search(log_pattern, line) (NoMatch when it       *)
(* returns None, otherwise the text of .group()), hdl is                   *)
(* search(handler_pattern, line) (None when it returns None, otherwise     *)
(* the text of .group(), which can be empty).                              *)
Line(l, h) == [lvl |-> l, hdl |-> h]

FileLines ==
    { Line("INFO", HA), Line("ERROR", HB), Line("ERROR", None),
      Line("INFO", EmptyStr), Line(TRACE, HA), Line(TRACE, None),
      Line(NoMatch, None) }

AnalyzeLines ==
    { Line("INFO", HA), Line("ERROR", None), Line(NoMatch, None) }

RECURSIVE SeqsUpTo(_, _)
SeqsUpTo(S, n) ==
    IF n = 0 THEN {<<>>}
    ELSE LET shorter == SeqsUpTo(S, n - 1)
         IN  shorter \cup {Append(s, x) : s \in {t \in shorter : Len(t) = n - 1}, x \in S}

----------------------------------------------------------------------------
(* LogParser.parse_log_line: search(log_pattern, line).group() raises      *)
(* AttributeError when the search returns None; otherwise the pair         *)
(* (level, handler) with handler None when the handler search fails.       *)
parse_log_line(line) ==
    IF line.lvl = NoMatch
    THEN [exc |-> "AttributeError", level |-> NoMatch, handler |-> None]
    ELSE [exc |-> "none", level |-> line.lvl, handler |-> line.hdl]

(* {level_info: 0 for level_info in self.parser.log_levels}                *)
ZeroRow == [l \in LevelSet |-> 0]

(* The empty dictionary.                                                   *)
EmptyTable == <<>>

(* d[h][level] += 1 ; the caller has checked that the keys exist.          *)
Incr(d, h, level) == [d EXCEPT ![h] = [@ EXCEPT ![level] = @ + 1]]

(* d[h][level] exists (otherwise the += raises KeyError).                  *)
HasCell(d, h, level) == h \in DOMAIN d /\ level \in DOMAIN d[h]

(* cache = handler  (CacheAfterMut: the cursor keeps the first handler)    *)
CacheAfterMut(c, handler) == IF c = None THEN handler ELSE c
CacheAfter(c, handler) == handler

(* if not handler and cache:  (ContinuationAppliesMut: "and cache" lost)   *)
ContinuationAppliesMut(handler, c) == ~Truthy(handler)
ContinuationApplies(handler, c) == ~Truthy(handler) /\ Truthy(c)

(* One iteration of the loop of parse_log_file on the local variables      *)
(* data and cache.  exc names the exception the iteration raises.          *)
ProcessLine(d, c, line) ==
    LET p == parse_log_line(line)
        level == p.level
        handler == p.handler
        d1 == IF Truthy(handler) /\ handler \notin DOMAIN d
              THEN d @@ (handler :> ZeroRow) ELSE d
        c1 == IF Truthy(handler) /\ handler \notin DOMAIN d
              THEN CacheAfter(c, handler) ELSE c
    IN  IF p.exc # "none"
        THEN [exc |-> p.exc, data |-> d, cache |-> c]
        ELSE IF Truthy(handler)
        THEN IF HasCell(d1, handler, level)
             THEN [exc |-> "none", data |-> Incr(d1, handler, level),
                   cache |-> CacheAfter(c1, handler)]
             ELSE [exc |-> "KeyError", data |-> d1, cache |-> c1]
        ELSE IF ContinuationApplies(handler, c1)
        THEN IF HasCell(d1, c1, level)
             THEN [exc |-> "none", data |-> Incr(d1, c1, level), cache |-> c1]
             ELSE [exc |-> "KeyError", data |-> d1, cache |-> c1]
        ELSE [exc |-> "none", data |-> d1, cache |-> c1]

(* parse_log_file run on its own over a whole file: the table it returns   *)
(* or the exception that ends it.                                          *)
RECURSIVE Aggregate(_, _, _, _)
Aggregate(lines, i, d, c) ==
    IF i > Len(lines) THEN [exc |-> "none", data |-> d, cache |-> c]
    ELSE LET r == ProcessLine(d, c, lines[i])
         IN  IF r.exc # "none" THEN [exc |-> r.exc, data |-> d, cache |-> c]
             ELSE Aggregate(lines, i + 1, r.data, r.cache)

parse_log_file(lines) == Aggregate(lines, 1, EmptyTable, None)

----------------------------------------------------------------------------
(* LogDataMerger.merge                                                     *)

(* final_result[handler][level] += count  (AddCountMut: "=" for "+=")      *)
AddCountMut(old, count) == count
AddCount(old, count) == old + count

(* final_result[handler] = {level: 0 for level in self.log_levels}         *)
(* (MergeInitRowMut: the new row starts from the counts about to be added) *)
MergeInitRowMut(levels) ==
    [l \in LevelSet |-> IF l \in DOMAIN levels THEN levels[l] ELSE 0]
MergeInitRow(levels) == ZeroRow

(* for level, count in levels.items(): if level in self.log_levels: ...    *)
RECURSIVE MergeLevels(_, _, _)
MergeLevels(row, levels, keys) ==
    IF keys = {} THEN row
    ELSE LET level == CHOOSE k \in keys : TRUE
             row1 == IF level \in LevelSet
                     THEN [row EXCEPT ![level] = AddCount(@, levels[level])]
                     ELSE row
         IN  MergeLevels(row1, levels, keys \ {level})

(* for handler, levels in data.items(): ...                                *)
RECURSIVE MergeHandlers(_, _, _)
MergeHandlers(acc, t, hs) ==
    IF hs = {} THEN acc
    ELSE LET handler == CHOOSE h \in hs : TRUE
             levels == t[handler]
             acc1 == IF handler \notin DOMAIN acc
                     THEN acc @@ (handler :> MergeInitRow(levels)) ELSE acc
             acc2 == [acc1 EXCEPT ![handler] =
                          MergeLevels(@, levels, DOMAIN levels)]
         IN  MergeHandlers(acc2, t, hs \ {handler})

(* for data in data_list: ...                                              *)
RECURSIVE MergeFrom(_, _, _)
MergeFrom(acc, tables, i) ==
    IF i > Len(tables) THEN acc
    ELSE MergeFrom(MergeHandlers(acc, tables[i], DOMAIN tables[i]), tables, i + 1)

merge(tables) == MergeFrom(EmptyTable, tables, 1)

----------------------------------------------------------------------------
(* Strings as sequences of character codes.                                *)

(* s[:n]                                                                   *)
Take(s, n) == IF Len(s) <= n THEN s ELSE SubSeq(s, 1, n)

(* s.ljust(w): pads with spaces on the right, never truncates.             *)
Ljust(s, w) ==
    IF Len(s) >= w THEN s ELSE s \o [i \in 1..(w - Len(s)) |-> SPACE]

(* str(n) for a non-negative integer.                                      *)
RECURSIVE Str(_)
Str(n) == IF n < 10 THEN <<DIGIT0 + n>>
          ELSE Append(Str(n \div 10), DIGIT0 + (n % 10))

(* sep.join(parts)                                                         *)
RECURSIVE Join(_, _)
Join(sep, parts) ==
    IF Len(parts) = 0 THEN <<>>
    ELSE IF Len(parts) = 1 THEN parts[1]
    ELSE parts[1] \o sep \o Join(sep, Tail(parts))

(* a < b for Python strings (code point order).                            *)
RECURSIVE LexLess(_, _)
LexLess(a, b) ==
    IF Len(b) = 0 THEN FALSE
    ELSE IF Len(a) = 0 THEN TRUE
    ELSE IF a[1] # b[1] THEN a[1] < b[1]
    ELSE LexLess(Tail(a), Tail(b))

(* sorted(keys)  (SortedKeysMut: descending order)                         *)
RECURSIVE SortedKeysMut(_)
SortedKeysMut(S) ==
    IF S = {} THEN <<>>
    ELSE LET m == CHOOSE x \in S : \A y \in S \ {x} : LexLess(y, x)
         IN  <<m>> \o SortedKeysMut(S \ {m})
RECURSIVE SortedKeys(_)
SortedKeys(S) ==
    IF S = {} THEN <<>>
    ELSE LET m == CHOOSE x \in S : \A y \in S \ {x} : LexLess(x, y)
         IN  <<m>> \o SortedKeys(S \ {m})

(* The text of the level names, of "HANDLER" and of "Total requests: ".    *)
LevelName(l) ==
    CASE l = "DEBUG"    -> <<68, 69, 66, 85, 71>>
      [] l = "INFO"     -> <<73, 78, 70, 79>>
      [] l = "WARNING"  -> <<87, 65, 82, 78, 73, 78, 71>>
      [] l = "ERROR"    -> <<69, 82, 82, 79, 82>>
      [] l = "CRITICAL" -> <<67, 82, 73, 84, 73, 67, 65, 76>>

HandlerLabel == <<72, 65, 78, 68, 76, 69, 82>>

TotalPrefix == <<84, 111, 116, 97, 108, 32, 114, 101, 113, 117, 101, 115,
                 116, 115, 58, 32>>

NEWLINE == 10

----------------------------------------------------------------------------
(* ReportGenerator                                                         *)

(* levels.get(level, 0)                                                    *)
GetCount(levels, level) == IF level \in DOMAIN levels THEN levels[level] ELSE 0

(* format_out(handler, levels)                                             *)
format_out(handler, levels) ==
    Ljust(Take(handler, HandlerWidth), HandlerWidth) \o <<TAB>> \o
    Join(<<TAB>>, [i \in 1..Len(LOG_LEVELS) |->
                      Ljust(Str(GetCount(levels, LOG_LEVELS[i])), LevelWidth)])

(* requests_by_level[level] after the loop over sorted_handlers.           *)
RECURSIVE RequestsByLevel(_, _, _)
RequestsByLevel(d, hs, level) ==
    IF Len(hs) = 0 THEN 0
    ELSE GetCount(d[hs[1]], level) + RequestsByLevel(d, Tail(hs), level)

RECURSIVE SumAllValues(_, _)
SumAllValues(levels, keys) ==
    IF keys = {} THEN 0
    ELSE LET k == CHOOSE x \in keys : TRUE
         IN  levels[k] + SumAllValues(levels, keys \ {k})

RECURSIVE SumKnownLevels(_, _)
SumKnownLevels(levels, i) ==
    IF i > Len(LOG_LEVELS) THEN 0
    ELSE GetCount(levels, LOG_LEVELS[i]) + SumKnownLevels(levels, i + 1)

(* total_requests after the loop over sorted_handlers.                     *)
(* (TotalRequestsMut: sums levels.values(), keys outside LOG_LEVELS too)   *)
RECURSIVE TotalRequestsMut(_, _)
TotalRequestsMut(d, hs) ==
    IF Len(hs) = 0 THEN 0
    ELSE SumAllValues(d[hs[1]], DOMAIN d[hs[1]]) + TotalRequestsMut(d, Tail(hs))
RECURSIVE TotalRequests(_, _)
TotalRequests(d, hs) ==
    IF Len(hs) = 0 THEN 0
    ELSE SumKnownLevels(d[hs[1]], 1) + TotalRequests(d, Tail(hs))

(* report_out(data): the report as one string.                             *)
report_out(d) ==
    LET sorted_handlers == SortedKeys(DOMAIN d)
        header == Ljust(HandlerLabel, HandlerWidth) \o <<TAB>> \o
                  Join(<<TAB>>, [i \in 1..Len(LOG_LEVELS) |->
                                    Ljust(LevelName(LOG_LEVELS[i]), LevelWidth)])
        rows == [i \in 1..Len(sorted_handlers) |->
                    format_out(sorted_handlers[i], d[sorted_handlers[i]])]
        total_line == Ljust(<<>>, HandlerWidth) \o <<TAB>> \o
                      Join(<<TAB>>, [i \in 1..Len(LOG_LEVELS) |->
                          Ljust(Str(RequestsByLevel(d, sorted_handlers, LOG_LEVELS[i])),
                                LevelWidth)])
        lines == <<header>> \o rows \o <<total_line>>
    IN  Join(<<NEWLINE>>,
             <<TotalPrefix \o Str(TotalRequests(d, sorted_handlers)), <<>>>> \o lines)

----------------------------------------------------------------------------
(* Inputs of the direct calls of merge and report_out.                     *)
Long25 == <<47>> \o [i \in 1..24 |-> 120]
HLongA == Long25 \o <<97>>
HLongB == Long25 \o <<98>>

(* Tables given to merge: any handlers among "/a/" and "/b/", each with    *)
(* one of the rows below (partial rows, a key outside LOG_LEVELS).         *)
RowPool ==
    { ("DEBUG" :> 1) @@ ("INFO" :> 2),
      ("DEBUG" :> 3) @@ ("ERROR" :> 12) @@ (TRACE :> 1) }

TablePool == UNION { [S -> RowPool] : S \in SUBSET {HA, HB} }

(* Tables given to report_out: two further handlers that differ only in    *)
(* their 26th character, and a full row with a three-digit count.          *)
ReportRowPool ==
    RowPool \cup {[ZeroRow EXCEPT !["WARNING"] = 100, !["CRITICAL"] = 7]}

ReportTablePool ==
    UNION { [S -> ReportRowPool] : S \in SUBSET {HA, HB, HLongA, HLongB} }

NoReport == <<>>

----------------------------------------------------------------------------
(* The state machine of AsyncLogAnalyzer.analyze.                          *)

Tasks == 1..Len(files)

(* A path with its content; a missing path has no content.                 *)
FileChoices(lines, n) ==
    {[present |-> TRUE, lines |-> c] : c \in SeqsUpTo(lines, n)}
        \cup {[present |-> FALSE, lines |-> <<>>]}

InitAnalyze(fs) ==
    /\ files = [f \in DOMAIN fs |-> fs[f].lines]
    /\ exists = [f \in DOMAIN fs |-> fs[f].present]
    /\ pc = "start"
    /\ pos = [f \in DOMAIN fs |-> 0]
    /\ data = [f \in DOMAIN fs |-> EmptyTable]
    /\ cache = [f \in DOMAIN fs |-> None]
    /\ tstate = [f \in DOMAIN fs |-> "pending"]
    /\ err = "none"
    /\ data_list = <<>>
    /\ merged_data = EmptyTable
    /\ rendered = EmptyTable
    /\ report = NoReport

(* analyze over MaxFiles paths.                                            *)
Init == \E fs \in [1..MaxFiles -> FileChoices(AnalyzeLines, MaxLines)] : InitAnalyze(fs)

(* analyze over a single path.                                             *)
InitFile == \E fs \in [1..1 -> FileChoices(FileLines, MaxFileLines)] : InitAnalyze(fs)

(* validate_files raises FileNotFoundError.                                *)
(* (ValidateFailsMut: only the first path is looked at)                    *)
ValidateFailsMut == Len(files) >= 1 /\ ~exists[1]
ValidateFails == \E f \in Tasks : ~exists[f]

(* await self.validate_files(file_paths), then the tasks are created.      *)
Validate ==
    /\ pc = "start"
    /\ IF ValidateFails
       THEN pc' = "failed" /\ err' = "FileNotFoundError"
       ELSE pc' = "parsing" /\ err' = err
    /\ UNCHANGED <<files, exists, pos, data, cache, tstate,
                   data_list, merged_data, rendered, report>>

(* One iteration of "async for line in self.read_file_lines(file_path)"    *)
(* of task f; the first one opens the file.  An exception of the task      *)
(* leaves gather and analyze.  Every iteration awaits the generator, so    *)
(* the tasks are interleaved line by line; the event loop's actual         *)
(* schedules are among these interleavings.                                *)
ParseStep(f) ==
    /\ pc = "parsing"
    /\ tstate[f] \in {"pending", "open"}
    /\ ~exists[f] \/ pos[f] < Len(files[f])
    /\ IF ~exists[f]
       THEN /\ tstate' = [tstate EXCEPT ![f] = "failed"]
            /\ err' = "FileNotFoundError"
            /\ pc' = "failed"
            /\ UNCHANGED <<pos, data, cache>>
       ELSE LET r == ProcessLine(data[f], cache[f], files[f][pos[f] + 1])
            IN  /\ pos' = [pos EXCEPT ![f] = @ + 1]
                /\ IF r.exc = "none"
                   THEN /\ data' = [data EXCEPT ![f] = r.data]
                        /\ cache' = [cache EXCEPT ![f] = r.cache]
                        /\ tstate' = [tstate EXCEPT ![f] = "open"]
                        /\ UNCHANGED <<err, pc>>
                   ELSE /\ tstate' = [tstate EXCEPT ![f] = "failed"]
                        /\ err' = r.exc
                        /\ pc' = "failed"
                        /\ UNCHANGED <<data, cache>>
    /\ UNCHANGED <<files, exists, data_list, merged_data, rendered, report>>

(* The file of task f is exhausted: parse_log_file returns data.           *)
TaskReturn(f) ==
    /\ pc = "parsing"
    /\ tstate[f] \in {"pending", "open"}
    /\ exists[f]
    /\ pos[f] = Len(files[f])
    /\ tstate' = [tstate EXCEPT ![f] = "done"]
    /\ UNCHANGED <<files, exists, pc, pos, data, cache, err,
                   data_list, merged_data, rendered, report>>

(* asyncio.gather over the tasks has every result.                         *)
(* (AllDoneMut: the first finished task is enough)                         *)
AllDoneMut == \E f \in Tasks : tstate[f] = "done"
AllDone == \A f \in Tasks : tstate[f] = "done"

(* data_list = await gather of the tasks; merge; report_out or ValueError. *)
Finish(report_type) ==
    /\ pc = "parsing"
    /\ AllDone
    /\ data_list' = [f \in Tasks |-> data[f]]
    /\ merged_data' = merge(data_list')
    /\ IF report_type = "handlers"
       THEN /\ rendered' = merged_data'
            /\ report' = report_out(merged_data')
            /\ pc' = "done"
            /\ err' = err
       ELSE /\ pc' = "failed"
            /\ err' = "ValueError"
            /\ UNCHANGED <<rendered, report>>
    /\ UNCHANGED <<files, exists, pos, data, cache, tstate>>

ReportTypes == {"handlers", "levels"}

Next ==
    \/ Validate
    \/ \E f \in Tasks : ParseStep(f)
    \/ \E f \in Tasks : TaskReturn(f)
    \/ \E rt \in ReportTypes : Finish(rt)

Spec == Init /\ [][Next]_vars

SpecFile == InitFile /\ [][Next]_vars

----------------------------------------------------------------------------
(* Direct calls of LogDataMerger.merge and ReportGenerator.report_out      *)
(* (as the unit tests make them) on tables of the pools above.             *)

InitMerge ==
    /\ data_list \in SeqsUpTo(TablePool, MaxTables)
    /\ pc = "input"
    /\ files = <<>>
    /\ exists = <<>>
    /\ pos = <<>>
    /\ data = <<>>
    /\ cache = <<>>
    /\ tstate = <<>>
    /\ err = "none"
    /\ merged_data = EmptyTable
    /\ rendered = EmptyTable
    /\ report = NoReport

CallMerge ==
    /\ pc = "input"
    /\ merged_data' = merge(data_list)
    /\ pc' = "merged"
    /\ UNCHANGED <<files, exists, pos, data, cache, tstate, err,
                   data_list, rendered, report>>

NextMerge == CallMerge

SpecMerge == InitMerge /\ [][NextMerge]_vars

(* A direct call of report_out on one table.                               *)
InitReport ==
    /\ rendered \in ReportTablePool
    /\ pc = "input"
    /\ files = <<>>
    /\ exists = <<>>
    /\ pos = <<>>
    /\ data = <<>>
    /\ cache = <<>>
    /\ tstate = <<>>
    /\ err = "none"
    /\ data_list = <<>>
    /\ merged_data = EmptyTable
    /\ report = NoReport

CallReport ==
    /\ pc = "input"
    /\ report' = report_out(rendered)
    /\ pc' = "reported"
    /\ UNCHANGED <<files, exists, pos, data, cache, tstate, err,
                   data_list, merged_data, rendered>>

NextReport == CallReport

SpecReport == InitReport /\ [][NextReport]_vars

----------------------------------------------------------------------------
(* Properties of parse_log_file (checked under SpecFile).                  *)

(* Task f has just consumed a line: its index is pos[f].                   *)
LastLine(f) == files[f][pos[f]]

(* The handler of the last handler-bearing line among the first n lines.   *)
RECURSIVE LastHandler(_, _)
LastHandler(lines, n) ==
    IF n = 0 THEN None
    ELSE IF Truthy(lines[n].hdl) THEN lines[n].hdl
    ELSE LastHandler(lines, n - 1)

(* Task f reads one more line in this step.                                *)
Reads(f) == pc = "parsing" /\ f \in Tasks /\ exists[f] /\ pos'[f] = pos[f] + 1

(* C1: a line with a level of LOG_LEVELS and no handler, read while the    *)
(* cursor is set, adds exactly 1 to the cell (most recently seen handler   *)
(* of this file, level) and changes nothing else.                          *)
C1_ContinuationAttribution ==
    [][\A f \in Tasks :
         LET ln == files[f][pos[f] + 1]
         IN  (Reads(f) /\ ln.lvl \in LevelSet /\ ~Truthy(ln.hdl) /\ Truthy(cache[f]))
             => /\ cache[f] = LastHandler(files[f], pos[f])
                /\ cache[f] \in DOMAIN data[f]
                /\ data' = [data EXCEPT ![f] =
                               [@ EXCEPT ![cache[f]] =
                                   [@ EXCEPT ![ln.lvl] = @ + 1]]]
                /\ cache' = cache
                /\ err' = "none"]_vars

C1_Witness ==
    \E f \in Tasks :
        /\ pos[f] = 3
        /\ files[f] = <<Line("INFO", HA), Line("ERROR", HB), Line("ERROR", None)>>
        /\ data[f][HA] = [ZeroRow EXCEPT !["INFO"] = 1]
        /\ data[f][HB] = [ZeroRow EXCEPT !["ERROR"] = 2]

(* C3 (as claimed): a line that the level pattern does not match does not  *)
(* abort: after it is read there is no exception and the task goes on.     *)
C3_MalformedLineDoesNotAbort ==
    \A f \in Tasks :
        (pos[f] >= 1 /\ LastLine(f).lvl = NoMatch)
            => (err = "none" /\ tstate[f] # "failed")

(* C4 (as claimed): a line whose level token is not in LOG_LEVELS is       *)
(* dropped without an exception and the task goes on.                      *)
C4_UnknownLevelIgnored ==
    \A f \in Tasks :
        (pos[f] >= 1 /\ LastLine(f).lvl \notin (LevelSet \cup {NoMatch}))
            => (err = "none" /\ tstate[f] # "failed")

(* C9: a line with a level and no handler, read while the cursor is unset, *)
(* changes no table and raises nothing; a file without a handler-bearing   *)
(* line, once aggregated, gives the empty table.                           *)
C9_NoCursorNoContribution ==
    /\ [][\A f \in Tasks :
            LET ln == files[f][pos[f] + 1]
            IN  (Reads(f) /\ ln.lvl # NoMatch /\ ~Truthy(ln.hdl) /\ cache[f] = None)
                => /\ data' = data
                   /\ data[f] = EmptyTable
                   /\ cache' = cache
                   /\ err' = "none"
                   /\ tstate'[f] = "open"]_vars
    /\ [](\A f \in Tasks :
            (tstate[f] = "done" /\ \A i \in 1..Len(files[f]) : ~Truthy(files[f][i].hdl))
                => data[f] = EmptyTable)

C9_Witness ==
    \E f \in Tasks :
        /\ tstate[f] = "done"
        /\ files[f] = <<Line("ERROR", None), Line(TRACE, None), Line("INFO", EmptyStr)>>
        /\ data[f] = EmptyTable

----------------------------------------------------------------------------
(* Properties of analyze (checked under Spec).                             *)

(* C5: when some path is missing, the run fails with FileNotFoundError     *)
(* before any file is opened or any line parsed and without a report; a    *)
(* task starts only when every path exists.                                *)
C5_ValidateBeforeParsing ==
    /\ (\E f \in Tasks : ~exists[f])
          => /\ pc \in {"start", "failed"}
             /\ pc = "failed" => err = "FileNotFoundError"
             /\ \A f \in Tasks : tstate[f] = "pending" /\ pos[f] = 0
                                   /\ data[f] = EmptyTable
             /\ report = NoReport
             /\ data_list = <<>>
    /\ (\E f \in Tasks : tstate[f] # "pending" \/ pos[f] > 0)
          => \A f \in Tasks : exists[f]

C5_Witness ==
    /\ pc = "failed"
    /\ err = "FileNotFoundError"
    /\ \E f, g \in Tasks : exists[f] /\ Len(files[f]) > 0 /\ ~exists[g]

(* C10: whatever the interleaving, each task's table and cursor are those  *)
(* of parse_log_file run alone on the lines it has read of its own file;   *)
(* merge runs only when every task is done; the merged result is the merge *)
(* of the tables of the files aggregated one by one.                       *)
C10_TasksIndependent ==
    /\ \A f \in Tasks :
          tstate[f] \in {"open", "done"}
              => LET alone == Aggregate(SubSeq(files[f], 1, pos[f]), 1, EmptyTable, None)
                 IN  alone.exc = "none" /\ data[f] = alone.data /\ cache[f] = alone.cache
    /\ (data_list # <<>> \/ report # NoReport \/ pc = "done")
          => /\ \A f \in Tasks : tstate[f] = "done" /\ pos[f] = Len(files[f])
             /\ data_list = [f \in Tasks |-> parse_log_file(files[f]).data]
             /\ merged_data = merge([f \in Tasks |-> parse_log_file(files[f]).data])

C10_Witness ==
    /\ pc = "done"
    /\ \E f, g \in Tasks :
          /\ files[f] = <<Line("INFO", HA), Line("ERROR", None)>>
          /\ files[g] = <<Line("ERROR", None), Line("INFO", HA)>>
    /\ merged_data[HA] = [ZeroRow EXCEPT !["INFO"] = 2, !["ERROR"] = 1]

----------------------------------------------------------------------------
(* Properties of merge (checked under SpecMerge).                          *)

(* The cell (h, l) of a table, a missing cell counting as 0.               *)
Cell(t, h, l) == IF h \in DOMAIN t /\ l \in DOMAIN t[h] THEN t[h][l] ELSE 0

(* The sum of the cell (h, l) over the tables of a list.                   *)
RECURSIVE SumCells(_, _, _)
SumCells(tables, h, l) ==
    IF Len(tables) = 0 THEN 0
    ELSE Cell(tables[1], h, l) + SumCells(Tail(tables), h, l)

(* C2: the handlers of merge(tables) are the union of the handlers of the  *)
(* tables, every handler has the five levels, and each cell is the sum of  *)
(* that cell over the tables; merge([]) is the empty table.                *)
C2_MergeSums ==
    pc = "merged" =>
        /\ DOMAIN merged_data =
               UNION {DOMAIN data_list[i] : i \in 1..Len(data_list)}
        /\ \A h \in DOMAIN merged_data :
              /\ DOMAIN merged_data[h] = LevelSet
              /\ \A l \in LevelSet :
                    merged_data[h][l] = SumCells(data_list, h, l)
        /\ data_list = <<>> => merged_data = EmptyTable

C2_Witness ==
    /\ pc = "merged"
    /\ Len(data_list) = 2
    /\ data_list[1] = (HA :> (("DEBUG" :> 1) @@ ("INFO" :> 2)))
    /\ HA \in DOMAIN data_list[2]
    /\ merged_data[HA] = [ZeroRow EXCEPT !["DEBUG"] = 4, !["INFO"] = 2, !["ERROR"] = 12]

(* C7: merge gives the same table for every permutation of the list, the   *)
(* reversed list included.                                                 *)
C7_MergeOrderIndependent ==
    pc = "merged" =>
        \A p \in Permutations(1..Len(data_list)) :
            merge([i \in 1..Len(data_list) |-> data_list[p[i]]]) = merged_data

C7_Witness ==
    /\ pc = "merged"
    /\ Len(data_list) >= 2
    /\ \E h \in DOMAIN data_list[1] \cap DOMAIN data_list[2] :
          data_list[1][h] # data_list[2][h]
    /\ DOMAIN data_list[1] # DOMAIN data_list[2]

----------------------------------------------------------------------------
(* Reading a report back from its text.                                    *)

(* s.split(sep) for a one-character separator.                             *)
Split(s, sep) ==
    LET at == {i \in 1..Len(s) : s[i] = sep}
        n == Cardinality(at)
        cut(k) == IF k = 0 THEN 0
                  ELSE IF k = n + 1 THEN Len(s) + 1
                  ELSE CHOOSE i \in at : Cardinality({j \in at : j < i}) = k - 1
    IN  [k \in 1..(n + 1) |-> SubSeq(s, cut(k - 1) + 1, cut(k) - 1)]

(* s.rstrip(" ")                                                           *)
RECURSIVE RStrip(_)
RStrip(s) ==
    IF Len(s) > 0 /\ s[Len(s)] = SPACE THEN RStrip(SubSeq(s, 1, Len(s) - 1)) ELSE s

IsDigits(s) == Len(s) > 0 /\ \A i \in 1..Len(s) : s[i] \in DIGIT0..(DIGIT0 + 9)

(* int(s) for a string of digits.                                          *)
RECURSIVE ParseNat(_)
ParseNat(s) ==
    IF Len(s) = 0 THEN 0
    ELSE 10 * ParseNat(SubSeq(s, 1, Len(s) - 1)) + (s[Len(s)] - DIGIT0)

RECURSIVE SumSeq(_)
SumSeq(q) == IF Len(q) = 0 THEN 0 ELSE q[1] + SumSeq(Tail(q))

ReportLines == Split(report, NEWLINE)

(* The handler rows of the report: after the summary line, the blank line  *)
(* and the header, before the total row.                                   *)
BodyRows == SubSeq(ReportLines, 4, Len(ReportLines) - 1)

TotalRow == ReportLines[Len(ReportLines)]

(* The columns of a row: the handler text, then the level cells.           *)
Columns(row) == Split(row, TAB)

ShownHandler(row) == Columns(row)[1]

CellsWellFormed(row) ==
    /\ Len(Columns(row)) = 1 + Len(LOG_LEVELS)
    /\ \A i \in 2..Len(Columns(row)) : IsDigits(RStrip(Columns(row)[i]))

RowSum(row) ==
    SumSeq([i \in 1..Len(LOG_LEVELS) |-> ParseNat(RStrip(Columns(row)[i + 1]))])

(* The number N of the line "Total requests: N".                           *)
SummaryWellFormed ==
    /\ Len(ReportLines) >= 4
    /\ SubSeq(ReportLines[1], 1, Len(TotalPrefix)) = TotalPrefix
    /\ IsDigits(SubSeq(ReportLines[1], Len(TotalPrefix) + 1, Len(ReportLines[1])))
    /\ ReportLines[2] = <<>>

SummaryN == ParseNat(SubSeq(ReportLines[1], Len(TotalPrefix) + 1, Len(ReportLines[1])))

----------------------------------------------------------------------------
(* Properties of report_out (checked under SpecMerge).                     *)

(* C6: the N of "Total requests: N" is the sum of the cells printed in the *)
(* handler rows and the sum of the five values of the total row.           *)
C6_TotalConsistency ==
    report # NoReport =>
        /\ SummaryWellFormed
        /\ Len(BodyRows) = Cardinality(DOMAIN rendered)
        /\ \A i \in 1..Len(BodyRows) : CellsWellFormed(BodyRows[i])
        /\ CellsWellFormed(TotalRow)
        /\ SummaryN = SumSeq([i \in 1..Len(BodyRows) |-> RowSum(BodyRows[i])])
        /\ SummaryN = RowSum(TotalRow)

C6_Witness ==
    /\ report # NoReport
    /\ Cardinality(DOMAIN rendered) >= 2
    /\ \E h \in DOMAIN rendered :
          TRACE \in DOMAIN rendered[h] /\ "INFO" \notin DOMAIN rendered[h]
    /\ SummaryN >= 16

(* C8 (as claimed): the handler text shown in each row is strictly greater *)
(* than the one shown in the row before.                                   *)
C8_ShownHandlersStrictlyAscending ==
    report # NoReport =>
        \A i \in 1..(Len(BodyRows) - 1) :
            LexLess(ShownHandler(BodyRows[i]), ShownHandler(BodyRows[i + 1]))

(* The handlers of a table in strictly ascending order.                    *)
Ascending(S) ==
    CHOOSE ks \in [1..Cardinality(S) -> S] :
        \A i, j \in 1..Cardinality(S) : i < j => LexLess(ks[i], ks[j])

(* C8 (amended): the rows are those of the handlers in strictly ascending  *)
(* order of the whole handler; the 25-character truncation shown in a row  *)
(* never decreases from a row to the next, and two consecutive rows show   *)
(* the same text when their handlers differ only after character 25.       *)
C8_RowsAscendingByHandler ==
    report # NoReport =>
        LET ks == Ascending(DOMAIN rendered)
        IN  /\ Len(BodyRows) = Cardinality(DOMAIN rendered)
            /\ \A i \in 1..Len(BodyRows) :
                  /\ BodyRows[i] = format_out(ks[i], rendered[ks[i]])
                  /\ ShownHandler(BodyRows[i]) =
                         Ljust(Take(ks[i], HandlerWidth), HandlerWidth)
            /\ \A i \in 1..(Len(BodyRows) - 1) :
                  /\ ~LexLess(Take(ks[i + 1], HandlerWidth), Take(ks[i], HandlerWidth))
                  /\ Take(ks[i], HandlerWidth) = Take(ks[i + 1], HandlerWidth)
                        => ShownHandler(BodyRows[i]) = ShownHandler(BodyRows[i + 1])

C8_Witness ==
    /\ report # NoReport
    /\ {HA, HLongA, HLongB} \subseteq DOMAIN rendered
    /\ Len(BodyRows) = 3
    /\ ShownHandler(BodyRows[2]) = ShownHandler(BodyRows[3])

====
